---- MODULE Spec2Model ----
(***************************************************************************)
(* AxiomHive hybrid model: the fusion orchestrator of                      *)
(* axiomhive/__init__.py and the attestation engine of                     *)
(* axiomhive/core/attestation.py.                                          *)
(*                                                                         *)
(* Python values are records [t, s, d]: t is the Python type, s the text   *)
(* of a scalar (the str of a str, the repr of a float or bool, the str()   *)
(* of an object json cannot encode), d the (key, value) pairs of a dict in *)
(* insertion order.  A "cycle" value is a reference back to the enclosing  *)
(* container.                                                              *)
(*                                                                         *)
(* SHA-256 is modelled as an injective function of its input text          *)
(* (collision resistance idealised): the digest of s is the text           *)
(* "sha256(s)".                                                            *)
(***************************************************************************)
EXTENDS Integers, Sequences, FiniteSets, TLC

VARIABLES
    heap,         \* list objects by reference; the engine's attestation_log lives here
    strategy,     \* CryptographicAttestationEngine.strategy
    gen_calls,    \* history: the generate_attestation calls that returned, in call order
    verify_call,  \* history: the last verify_attestation call, its clock reading and result
    ret,          \* the last engine call and the exception it raised, if any
    held,         \* the reference a caller holds from get_audit_trail, or NoRef
    pc,           \* per thread: the line of the engine method it is at
    tl,           \* per thread: the locals of the call in progress
    observed,     \* per thread: the entries it last read through its audit-trail reference
    completed,    \* number of generate_attestation calls that returned, over all threads
    model,        \* AxiomHiveHybridModel fields: reasoning_mode, attestation_enabled
    fusion,       \* the last _orchestrate call: its arguments and its result
    hybrid_out,   \* the last HybridOutput returned by process
    verified      \* the last verify_output call: its arguments and its result

vars == <<heap, strategy, gen_calls, verify_call, ret, held,
          pc, tl, observed, completed, model, fusion, hybrid_out, verified>>

engine_vars == <<heap, strategy, gen_calls, verify_call, ret, held>>
thread_vars == <<pc, tl, observed, completed>>
fusion_vars == <<model, fusion, hybrid_out, verified>>

----------------------------------------------------------------------------
(* Bounds *)

MaxLog == 2      \* generate_attestation calls one caller makes that append
MaxCalls == 3    \* generate_attestation calls the threads start, over all threads

----------------------------------------------------------------------------
(* Python values *)

V(t, s, d) == [t |-> t, s |-> s, d |-> d]
Str(s) == V("str", s, <<>>)
Float(s) == V("float", s, <<>>)
Bool(s) == V("bool", s, <<>>)
None == V("none", "None", <<>>)
Obj(s) == V("obj", s, <<>>)
Cycle == V("cycle", "", <<>>)
Dict(items) == V("dict", "", items)

Has(dct, k) == \E i \in 1..Len(dct.d) : dct.d[i][1] = k
Item(dct, k) == dct.d[CHOOSE i \in 1..Len(dct.d) : dct.d[i][1] = k][2]
Get(dct, k, default) == IF Has(dct, k) THEN Item(dct, k) ELSE default

\* Python ==: dicts compare by their items whatever the insertion order.
RECURSIVE PyEq(_, _)
PyEq(a, b) ==
    IF a.t = "dict" /\ b.t = "dict"
    THEN /\ Len(a.d) = Len(b.d)
         /\ \A i \in 1..Len(a.d) :
                /\ Has(b, a.d[i][1])
                /\ PyEq(a.d[i][2], Item(b, a.d[i][1]))
    ELSE a = b

\* Python truthiness, as used by `metadata or {}`.
Truthy(v) ==
    CASE v.t = "none" -> FALSE
      [] v.t = "dict" -> Len(v.d) > 0
      [] v.t = "str" -> v.s # ""
      [] v.t = "bool" -> v.s = "True"
      [] OTHER -> TRUE

PyOr(a, b) == IF Truthy(a) THEN a ELSE b

----------------------------------------------------------------------------
(* json.dumps(obj, sort_keys=True, default=str) *)

\* Every key the model uses, in the order Python's sorted() gives (code points).
KeyOrder == <<"confidence", "confidence_score", "decision", "metadata", "output",
              "policy", "probabilistic_weight", "reasoning", "reasoning_path",
              "self", "symbolic_weight", "timestamp", "verified">>

Ok(s) == [ok |-> TRUE, s |-> s]
Raise(exc) == [ok |-> FALSE, s |-> exc]

\* Faulty variant (sort_keys left out): the items in insertion order.
sort_items_unsorted(dct) == dct.d

\* sort_keys=True: the items ordered by key.
sort_items(dct) ==
    LET present == SelectSeq(KeyOrder, LAMBDA k : Has(dct, k))
    IN  [i \in 1..Len(present) |-> <<present[i], Item(dct, present[i])>>]

RECURSIVE json_encode(_), json_encode_items(_, _)
json_encode(o) ==
    CASE o.t = "str" -> Ok("\"" \o o.s \o "\"")
      [] o.t = "float" -> Ok(o.s)
      [] o.t = "bool" -> Ok(IF o.s = "True" THEN "true" ELSE "false")
      [] o.t = "none" -> Ok("null")
      [] o.t = "obj" -> Ok("\"" \o o.s \o "\"")          \* default=str
      [] o.t = "cycle" -> Raise("ValueError")            \* Circular reference detected
      [] o.t = "dict" ->
            LET r == json_encode_items(sort_items(o), 1)
            IN  IF r.ok THEN Ok("{" \o r.s \o "}") ELSE r

json_encode_items(items, i) ==
    IF i > Len(items) THEN Ok("")
    ELSE LET v == json_encode(items[i][2])
             rest == json_encode_items(items, i + 1)
         IN  IF ~v.ok THEN v
             ELSE IF ~rest.ok THEN rest
             ELSE Ok("\"" \o items[i][1] \o "\": " \o v.s
                     \o (IF i < Len(items) THEN ", " ELSE "") \o rest.s)

json_dumps(obj) == json_encode(obj)

\* hashlib.sha256(s.encode()).hexdigest()
sha256_hexdigest(s) == "sha256(" \o s \o ")"

----------------------------------------------------------------------------
(* datetime.utcnow().isoformat() *)

Epoch == "2024-01-01T00:00:00"
\* The readings of datetime.utcnow() the model draws from, in microseconds after
\* Epoch: one on the second (no fraction is printed) and one off it.
Clock == {0, 12}

Digits(n) == IF n < 10 THEN "00000" \o ToString(n)
             ELSE IF n < 100 THEN "0000" \o ToString(n)
             ELSE IF n < 1000 THEN "000" \o ToString(n)
             ELSE IF n < 10000 THEN "00" \o ToString(n)
             ELSE IF n < 100000 THEN "0" \o ToString(n)
             ELSE ToString(n)

\* isoformat() leaves the fraction out when the microsecond is 0.
isoformat(us) == IF us = 0 THEN Epoch ELSE Epoch \o "." \o Digits(us)

----------------------------------------------------------------------------------------------------------------------------------------------
(* Inputs *)

EmptyDict == Dict(<<>>)

\* The same two items inserted in the two possible orders, and a payload that
\* contains itself.
PayloadAB == Dict(<< <<"decision", Str("APPROVED")>>, <<"confidence", Float("0.3")>> >>)
PayloadBA == Dict(<< <<"confidence", Float("0.3")>>, <<"decision", Str("APPROVED")>> >>)
PayloadCyclic == Dict(<< <<"decision", Str("APPROVED")>>, <<"self", Cycle>> >>)
Payloads == {PayloadAB, PayloadBA, PayloadCyclic}

\* No metadata, and metadata holding a value json cannot encode natively.
MetaPV == Dict(<< <<"policy", Obj("Policy.v1")>>, <<"verified", Bool("True")>> >>)
Metadatas == {None, MetaPV}
\* MetaPV with its keys inserted in the other order.
MetaVP == Dict(<< <<"verified", Bool("True")>>, <<"policy", Obj("Policy.v1")>> >>)

BogusHash == "0000"

----------------------------------------------------------------------------
(* CryptographicAttestationEngine *)

NoRef == "None"
\* The list object created by __init__ and held in self.attestation_log.
self_attestation_log == "list@attestation_log"

\* Faulty variant: list.insert(0, e).
list_insert_front(L, e) == <<e>> \o L

\* list.append
list_append(L, e) == Append(L, e)

\* Faulty variant: the clock is not read; a fixed timestamp is hashed.
attestation_dict_without_timestamp(output, metadata, us) ==
    Dict(<< <<"output", output>>,
            <<"metadata", PyOr(metadata, EmptyDict)>>,
            <<"timestamp", Str(Epoch)>> >>)

\* The dict both generate_attestation and verify_attestation hash; us is the
\* reading of datetime.utcnow() taken inside the call.
attestation_dict(output, metadata, us) ==
    Dict(<< <<"output", output>>,
            <<"metadata", PyOr(metadata, EmptyDict)>>,
            <<"timestamp", Str(isoformat(us))>> >>)

LogEntry(hash, timestamp, strat) ==
    [hash |-> hash, timestamp |-> timestamp, strategy |-> strat]

Returned(op) == [op |-> op, exc |-> ""]
Raised(op, exc) == [op |-> op, exc |-> exc]

GenCall(output, metadata, us, h) ==
    [output |-> output, metadata |-> metadata, clock |-> us, hash |-> h]

\* Faulty variant: the entry is appended before json.dumps has succeeded.
generate_attestation_append_first(output, metadata, us) ==
    LET d == attestation_dict(output, metadata, us)
        js == json_dumps(d)
        h == IF js.ok THEN sha256_hexdigest(js.s) ELSE "None"
        log == heap[self_attestation_log]
    IN  /\ Len(gen_calls) < MaxLog
        /\ Len(log) <= MaxLog
        /\ heap' = [heap EXCEPT ![self_attestation_log] =
                        list_append(log, LogEntry(h, Item(d, "timestamp").s, strategy))]
        /\ IF js.ok
           THEN /\ gen_calls' = Append(gen_calls, GenCall(output, metadata, us, h))
                /\ ret' = Returned("generate_attestation")
           ELSE /\ ret' = Raised("generate_attestation", js.s)
                /\ UNCHANGED gen_calls
        /\ UNCHANGED <<strategy, verify_call, held>>

generate_attestation(output, metadata, us) ==
    LET d == attestation_dict(output, metadata, us)
        js == json_dumps(d)
        log == heap[self_attestation_log]
    IN  IF ~js.ok
        THEN \* json.dumps raises before the append is reached
             /\ ret' = Raised("generate_attestation", js.s)
             /\ UNCHANGED <<heap, strategy, gen_calls, verify_call, held>>
        ELSE LET h == sha256_hexdigest(js.s)
             IN  /\ Len(gen_calls) < MaxLog
                 /\ heap' = [heap EXCEPT ![self_attestation_log] =
                                list_append(log, LogEntry(h, Item(d, "timestamp").s, strategy))]
                 /\ gen_calls' = Append(gen_calls, GenCall(output, metadata, us, h))
                 /\ ret' = Returned("generate_attestation")
                 /\ UNCHANGED <<strategy, verify_call, held>>

\* History: the generate_attestation call (its index, 0 if none) that was made
\* with this output and metadata and returned this hash.
GenCallOf(output, attestation_hash, metadata) ==
    LET S == {i \in 1..Len(gen_calls) :
                /\ gen_calls[i].output = output
                /\ gen_calls[i].metadata = metadata
                /\ gen_calls[i].hash = attestation_hash}
    IN  IF S = {} THEN 0 ELSE CHOOSE i \in S : TRUE

verify_attestation(output, attestation_hash, metadata, us) ==
    LET d == attestation_dict(output, metadata, us)
        js == json_dumps(d)
    IN  IF ~js.ok
        THEN /\ ret' = Raised("verify_attestation", js.s)
             /\ UNCHANGED <<heap, strategy, gen_calls, verify_call, held>>
        ELSE LET computed_hash == sha256_hexdigest(js.s)
                 is_valid == (computed_hash = attestation_hash)
             IN  /\ ret' = Returned("verify_attestation")
                 /\ verify_call' = [called |-> TRUE,
                                    gen |-> GenCallOf(output, attestation_hash, metadata),
                                    clock |-> us,
                                    result |-> is_valid]
                 /\ UNCHANGED <<heap, strategy, gen_calls, held>>

\* get_audit_trail returns self.attestation_log: the list object itself.
get_audit_trail_value == self_attestation_log

get_audit_trail ==
    /\ ret' = Returned("get_audit_trail")
    /\ held' = get_audit_trail_value
    /\ UNCHANGED <<heap, strategy, gen_calls, verify_call>>

----------------------------------------------------------------------------
(* A caller mutating the list it got from get_audit_trail *)

ForgedEntry == LogEntry(BogusHash, Epoch, "forged")

caller_append ==
    /\ held # NoRef
    /\ Len(heap[held]) < MaxLog
    /\ heap' = [heap EXCEPT ![held] = list_append(@, ForgedEntry)]
    /\ ret' = Returned("caller.append")
    /\ UNCHANGED <<strategy, gen_calls, verify_call, held>>

caller_delete ==
    /\ held # NoRef
    /\ Len(heap[held]) > 0
    /\ heap' = [heap EXCEPT ![held] = Tail(@)]
    /\ ret' = Returned("caller.delete")
    /\ UNCHANGED <<strategy, gen_calls, verify_call, held>>

caller_replace ==
    /\ held # NoRef
    /\ Len(heap[held]) > 0
    /\ heap' = [heap EXCEPT ![held] = [@ EXCEPT ![1] = ForgedEntry]]
    /\ ret' = Returned("caller.replace")
    /\ UNCHANGED <<strategy, gen_calls, verify_call, held>>

----------------------------------------------------------------------------
(* Specifications of the engine used by one caller *)

Unused == "unused"

NoVerify == [called |-> FALSE, gen |-> 0, clock |-> 0, result |-> FALSE]

\* CryptographicAttestationEngine.__init__ with the default strategy
EngineInit ==
    /\ strategy = "sha256"
    /\ heap = [r \in {self_attestation_log} |-> <<>>]
    /\ gen_calls = <<>>
    /\ verify_call = NoVerify
    /\ ret = Returned("__init__")
    /\ held = NoRef

InitEngine ==
    /\ EngineInit
    /\ pc = Unused /\ tl = Unused /\ observed = Unused /\ completed = Unused
    /\ model = Unused /\ fusion = Unused /\ hybrid_out = Unused /\ verified = Unused

other_than_engine == <<thread_vars, fusion_vars>>

Generate ==
    /\ \E P \in Payloads, M \in Metadatas, us \in Clock :
            generate_attestation(P, M, us)
    /\ UNCHANGED other_than_engine

\* verify_attestation of an earlier attestation with the payload and metadata it
\* was generated from, or of a hash the engine never produced.
VerifyGenerated ==
    /\ \E i \in 1..Len(gen_calls), us \in Clock :
            verify_attestation(gen_calls[i].output, gen_calls[i].hash,
                               gen_calls[i].metadata, us)
    /\ UNCHANGED other_than_engine

VerifyBogus ==
    /\ \E P \in Payloads, us \in Clock :
            verify_attestation(P, BogusHash, None, us)
    /\ UNCHANGED other_than_engine

GetAuditTrail == get_audit_trail /\ UNCHANGED other_than_engine

NextEngine ==
    \/ Generate
    \/ VerifyGenerated
    \/ VerifyBogus
    \/ GetAuditTrail

SpecEngine == InitEngine /\ [][NextEngine]_vars

\* The engine used for attestation only, with metadata in both insertion orders.
GenerateReordered ==
    /\ \E P \in Payloads, M \in Metadatas \cup {MetaVP}, us \in Clock :
            generate_attestation(P, M, us)
    /\ UNCHANGED other_than_engine

NextGenerate ==
    \/ GenerateReordered
    \/ GetAuditTrail

SpecGenerate == InitEngine /\ [][NextGenerate]_vars

CallerAppend == caller_append /\ UNCHANGED other_than_engine
CallerDelete == caller_delete /\ UNCHANGED other_than_engine
CallerReplace == caller_replace /\ UNCHANGED other_than_engine

NextCaller ==
    \/ Generate
    \/ GetAuditTrail
    \/ CallerAppend
    \/ CallerDelete
    \/ CallerReplace

SpecCaller == InitEngine /\ [][NextCaller]_vars

\* What a get_audit_trail call returns in the current state.
AuditTrail == heap[get_audit_trail_value]

----------------------------------------------------------------------------
(* Several threads calling one engine                                      *)
(*                                                                         *)
(* The engine takes no lock.  A thread may be switched out between any two *)
(* statements of generate_attestation; list.append itself is one atomic    *)
(* step of the interpreter, and the entry it appends is a dict literal     *)
(* built in full before the call.                                          *)

Threads == {"T1", "T2"}

NoLocals == [d |-> None, hash |-> "None", trail |-> NoRef]

InCall == {t \in Threads : pc[t] # "idle"}

\* lines 43-47: the call starts and attestation_dict is built
t_generate_begin(t, output, metadata, us) ==
    /\ pc[t] = "idle"
    /\ Len(heap[self_attestation_log]) + Cardinality(InCall) < MaxCalls
    /\ pc' = [pc EXCEPT ![t] = "dumps"]
    /\ tl' = [tl EXCEPT ![t].d = attestation_dict(output, metadata, us)]
    /\ UNCHANGED <<heap, observed, completed>>

\* lines 48-49: json.dumps and sha256; an exception ends the call
t_dumps_hash(t) ==
    /\ pc[t] = "dumps"
    /\ LET js == json_dumps(tl[t].d)
       IN  IF js.ok
           THEN /\ tl' = [tl EXCEPT ![t].hash = sha256_hexdigest(js.s)]
                /\ pc' = [pc EXCEPT ![t] = "append"]
           ELSE /\ tl' = [tl EXCEPT ![t].d = None]
                /\ pc' = [pc EXCEPT ![t] = "idle"]
    /\ UNCHANGED <<heap, observed, completed>>

\* Faulty variant: a read-copy-write append; when two threads are at the append
\* together the entry of one of them is overwritten.
t_append_racy(t) ==
    /\ pc[t] = "append"
    /\ heap' = IF \E u \in Threads \ {t} : pc[u] = "append"
               THEN heap
               ELSE [heap EXCEPT ![self_attestation_log] =
                        list_append(@, LogEntry(tl[t].hash, Item(tl[t].d, "timestamp").s,
                                                strategy))]
    /\ pc' = [pc EXCEPT ![t] = "return"]
    /\ UNCHANGED <<tl, observed, completed>>

\* lines 51-55: self.attestation_log.append({...})
t_append(t) ==
    /\ pc[t] = "append"
    /\ heap' = [heap EXCEPT ![self_attestation_log] =
                    list_append(@, LogEntry(tl[t].hash, Item(tl[t].d, "timestamp").s,
                                            strategy))]
    /\ pc' = [pc EXCEPT ![t] = "return"]
    /\ UNCHANGED <<tl, observed, completed>>

\* line 57: return attestation_hash
t_return(t) ==
    /\ pc[t] = "return"
    /\ pc' = [pc EXCEPT ![t] = "idle"]
    /\ tl' = [tl EXCEPT ![t].d = None, ![t].hash = "None"]
    /\ completed' = completed + 1
    /\ UNCHANGED <<heap, observed>>

\* line 83: the thread receives self.attestation_log
t_get_audit_trail(t) ==
    /\ pc[t] = "idle"
    /\ tl[t].trail = NoRef
    /\ tl' = [tl EXCEPT ![t].trail = get_audit_trail_value]
    /\ UNCHANGED <<heap, pc, observed, completed>>

\* The thread reads the entries of the list it received.
t_read_trail(t) ==
    /\ pc[t] = "idle"
    /\ tl[t].trail # NoRef
    /\ observed' = [observed EXCEPT ![t] = heap[tl[t].trail]]
    /\ UNCHANGED <<heap, pc, tl, completed>>

InitThreads ==
    /\ strategy = "sha256"
    /\ heap = [r \in {self_attestation_log} |-> <<>>]
    /\ pc = [t \in Threads |-> "idle"]
    /\ tl = [t \in Threads |-> NoLocals]
    /\ observed = [t \in Threads |-> <<>>]
    /\ completed = 0
    /\ gen_calls = Unused /\ verify_call = Unused /\ ret = Unused /\ held = Unused
    /\ model = Unused /\ fusion = Unused /\ hybrid_out = Unused /\ verified = Unused

other_than_threads == <<strategy, gen_calls, verify_call, ret, held, fusion_vars>>

ThreadGenerateBegin ==
    /\ \E t \in Threads, P \in {PayloadAB, PayloadCyclic}, us \in Clock :
            t_generate_begin(t, P, None, us)
    /\ UNCHANGED other_than_threads
ThreadDumpsHash == (\E t \in Threads : t_dumps_hash(t)) /\ UNCHANGED other_than_threads
ThreadAppend == (\E t \in Threads : t_append(t)) /\ UNCHANGED other_than_threads
ThreadReturn == (\E t \in Threads : t_return(t)) /\ UNCHANGED other_than_threads
ThreadGetAuditTrail ==
    (\E t \in Threads : t_get_audit_trail(t)) /\ UNCHANGED other_than_threads
ThreadReadTrail == (\E t \in Threads : t_read_trail(t)) /\ UNCHANGED other_than_threads

NextThreads ==
    \/ ThreadGenerateBegin
    \/ ThreadDumpsHash
    \/ ThreadAppend
    \/ ThreadReturn
    \/ ThreadGetAuditTrail
    \/ ThreadReadTrail

SpecThreads == InitThreads /\ [][NextThreads]_vars

----------------------------------------------------------------------------
(* AxiomHiveHybridModel *)

\* A reasoning_mode argument: a member of the ReasoningMode enum, a member of
\* some other enum (it has a .value, and equals no ReasoningMode member), or a
\* plain string (it has no .value attribute).
Mode(enum, name, value) == [enum |-> enum, name |-> name, value |-> value]
SYMBOLIC == Mode("ReasoningMode", "SYMBOLIC", "symbolic")
PROBABILISTIC == Mode("ReasoningMode", "PROBABILISTIC", "probabilistic")
HYBRID == Mode("ReasoningMode", "HYBRID", "hybrid")
VOTING == Mode("ReasoningMode", "VOTING", "voting")
ReasoningMode == {SYMBOLIC, PROBABILISTIC, HYBRID, VOTING}
OtherEnumMember == Mode("OtherEnum", "HYBRID", "hybrid")
PlainString == Mode("str", "hybrid", "")
ModeArguments == ReasoningMode \cup {OtherEnumMember, PlainString}

HasValue(mode) == mode.enum # "str"

\* A call's outcome: the exception raised ("" if none) and the value returned.
Value(v) == [exc |-> "", val |-> v]
Exception(exc) == [exc |-> exc, val |-> None]

\* _symbolic_reasoning (a stub: the same record for every input)
symbolic_reasoning(input_data, verify_constraints) ==
    Dict(<< <<"decision", Str("APPROVED")>>,
            <<"reasoning", Str("Constraint satisfaction verified via formal logic")>>,
            <<"verified", Bool("True")>> >>)

\* _probabilistic_inference (a stub: the same record for every input)
probabilistic_inference(input_data) ==
    Dict(<< <<"decision", Str("APPROVED")>>,
            <<"confidence", Float("0.96")>>,
            <<"reasoning", Str("Pattern recognition confidence 96%")>> >>)

FusedRecord(decision, confidence, symbolic, probabilistic) ==
    Dict(<< <<"decision", decision>>,
            <<"confidence", confidence>>,
            <<"reasoning", Str("Symbolic: " \o Item(symbolic, "reasoning").s
                               \o "; Probabilistic: " \o Item(probabilistic, "reasoning").s)>>,
            <<"symbolic_weight", Float("0.6")>>,
            <<"probabilistic_weight", Float("0.4")>> >>)

\* Faulty variant: the probabilistic decision wins when it reports a confidence.
orchestrate_confidence_wins(mode, symbolic, probabilistic) ==
    IF ~HasValue(mode) THEN Exception("AttributeError")
    ELSE IF mode = SYMBOLIC THEN Value(symbolic)
    ELSE IF mode = PROBABILISTIC THEN Value(probabilistic)
    ELSE IF ~(Has(symbolic, "decision") /\ Has(symbolic, "reasoning")
              /\ Has(probabilistic, "reasoning"))
    THEN Exception("KeyError")
    ELSE Value(FusedRecord(IF Has(probabilistic, "confidence")
                           THEN Item(probabilistic, "decision")
                           ELSE Item(symbolic, "decision"),
                           Get(probabilistic, "confidence", Float("0.5")),
                           symbolic, probabilistic))

\* _orchestrate, with self.reasoning_mode as mode
orchestrate(mode, symbolic, probabilistic) ==
    IF ~HasValue(mode)
    THEN Exception("AttributeError")      \* line 175 reads self.reasoning_mode.value
    ELSE IF mode = SYMBOLIC THEN Value(symbolic)
    ELSE IF mode = PROBABILISTIC THEN Value(probabilistic)
    ELSE \* every other mode: HYBRID, VOTING, and anything else with a .value
         IF ~(Has(symbolic, "decision") /\ Has(symbolic, "reasoning")
              /\ Has(probabilistic, "reasoning"))
         THEN Exception("KeyError")
         ELSE Value(FusedRecord(Item(symbolic, "decision"),
                                Get(probabilistic, "confidence", Float("0.5")),
                                symbolic, probabilistic))

\* _generate_attestation
model_generate_attestation(output) ==
    LET js == json_dumps(output)
    IN  IF js.ok THEN Value(Str(sha256_hexdigest(js.s))) ELSE Exception(js.s)

HybridOutput(output, reasoning_path, confidence_score, formal_verification, attestation_hash, symbolic_contribution, probabilistic_contribution) ==
    [output |-> output,
     reasoning_path |-> reasoning_path,
     confidence_score |-> confidence_score,
     formal_verification |-> formal_verification,
     attestation_hash |-> attestation_hash,
     symbolic_contribution |-> symbolic_contribution,
     probabilistic_contribution |-> probabilistic_contribution,
     compliance_verified |-> Bool("True")]

PyBool(b) == IF b THEN Bool("True") ELSE Bool("False")

\* process, as a function of the model's fields and the arguments
process_result(mode, attestation_enabled, input_data, require_explanation, verify_constraints) ==
    LET symbolic_result == symbolic_reasoning(input_data, verify_constraints)
        probabilistic_result == probabilistic_inference(input_data)
        fused == orchestrate(mode, symbolic_result, probabilistic_result)
        att == IF attestation_enabled
               THEN model_generate_attestation(fused.val)
               ELSE Value(None)
    IN  IF fused.exc # "" THEN fused
        ELSE IF att.exc # "" THEN att
        ELSE IF ~Has(fused.val, "decision") THEN Exception("KeyError")
        ELSE Value(HybridOutput(
                Item(fused.val, "decision"),
                IF require_explanation THEN Get(fused.val, "reasoning", Str(""))
                                       ELSE Str(""),
                Get(fused.val, "confidence", Float("0.0")),
                PyBool(verify_constraints),
                att.val,
                Get(fused.val, "symbolic_weight", Float("0.0")),
                Get(fused.val, "probabilistic_weight", Float("0.0"))))

\* verify_output
verify_output_result(output, attestation_hash) ==
    LET output_dict == Dict(<< <<"output", output.output>>,
                               <<"reasoning_path", output.reasoning_path>>,
                               <<"confidence_score", output.confidence_score>> >>)
        js == json_dumps(output_dict)
    IN  IF js.ok
        THEN Value(PyBool(Str(sha256_hexdigest(js.s)) = attestation_hash))
        ELSE Exception(js.s)

----------------------------------------------------------------------------
(* Specification of the hybrid model *)

NoFusion == [called |-> FALSE, mode |-> HYBRID, symbolic |-> None,
             probabilistic |-> None, exc |-> "", val |-> None]
NoOutput == [called |-> FALSE, mode |-> HYBRID, exc |-> "",
             val |-> HybridOutput(None, None, None, None, None, None, None)]
NoVerified == [called |-> FALSE, own |-> FALSE, attested |-> FALSE,
               exc |-> "", val |-> None]

\* Decision records handed to the orchestrator.
Deterministic ==
    {Dict(<< <<"decision", Str(dec)>>, <<"reasoning", Str("rule R3 satisfied")>>,
             <<"verified", Bool("True")>> >>) : dec \in {"APPROVED", "REJECTED"}}
Probabilistic ==
    {Dict(<< <<"decision", Str("REJECTED")>>, <<"confidence", Float("0.3")>>,
             <<"reasoning", Str("anomaly score high")>> >>),
     Dict(<< <<"decision", Str("APPROVED")>>, <<"confidence", Float("0.99")>>,
             <<"reasoning", Str("typical")>> >>),
     Dict(<< <<"decision", Str("REJECTED")>>,
             <<"reasoning", Str("no score")>> >>)}

\* __init__: lines 93-96 log reasoning_mode.value, so an argument without a
\* .value attribute raises AttributeError and no model is built.
construct(reasoning_mode, attestation_enabled) ==
    IF ~HasValue(reasoning_mode)
    THEN /\ ret' = Raised("__init__", "AttributeError")
         /\ UNCHANGED <<model, fusion, hybrid_out, verified>>
    ELSE /\ model' = [reasoning_mode |-> reasoning_mode,
                      attestation_enabled |-> attestation_enabled]
         /\ fusion' = NoFusion
         /\ hybrid_out' = NoOutput
         /\ verified' = NoVerified
         /\ ret' = Returned("__init__")

call_orchestrate(symbolic, probabilistic) ==
    LET r == orchestrate(model.reasoning_mode, symbolic, probabilistic)
    IN  /\ fusion' = [called |-> TRUE, mode |-> model.reasoning_mode,
                      symbolic |-> symbolic, probabilistic |-> probabilistic,
                      exc |-> r.exc, val |-> r.val]
        /\ ret' = Raised("_orchestrate", r.exc)
        /\ UNCHANGED <<model, hybrid_out, verified>>

process(input_data, require_explanation, verify_constraints) ==
    LET r == process_result(model.reasoning_mode, model.attestation_enabled,
                            input_data, require_explanation, verify_constraints)
    IN  /\ hybrid_out' = [called |-> TRUE, mode |-> model.reasoning_mode,
                          exc |-> r.exc,
                          val |-> IF r.exc = "" THEN r.val ELSE NoOutput.val]
        /\ ret' = Raised("process", r.exc)
        /\ UNCHANGED <<model, fusion, verified>>

\* verify_output on the last output of process, with the hash that output
\* carries or with some other hash.
verify_output(own) ==
    /\ hybrid_out.called /\ hybrid_out.exc = ""
    /\ LET h == IF own THEN hybrid_out.val.attestation_hash ELSE Str(BogusHash)
           r == verify_output_result(hybrid_out.val, h)
       IN  /\ verified' = [called |-> TRUE, own |-> own,
                           attested |-> hybrid_out.val.attestation_hash # None,
                           exc |-> r.exc, val |-> r.val]
           /\ ret' = Raised("verify_output", r.exc)
    /\ UNCHANGED <<model, fusion, hybrid_out>>

InitFusion ==
    /\ \E m \in ReasoningMode, a \in BOOLEAN :
          model = [reasoning_mode |-> m, attestation_enabled |-> a]
    /\ fusion = NoFusion
    /\ hybrid_out = NoOutput
    /\ verified = NoVerified
    /\ ret = Returned("__init__")
    /\ heap = Unused /\ strategy = Unused /\ gen_calls = Unused
    /\ verify_call = Unused /\ held = Unused
    /\ pc = Unused /\ tl = Unused /\ observed = Unused /\ completed = Unused

other_than_model == <<heap, strategy, gen_calls, verify_call, held, thread_vars>>

Construct ==
    /\ \E m \in ModeArguments, a \in BOOLEAN : construct(m, a)
    /\ UNCHANGED other_than_model
Orchestrate ==
    /\ \E d \in Deterministic, p \in Probabilistic : call_orchestrate(d, p)
    /\ UNCHANGED other_than_model
Process ==
    /\ \E re \in BOOLEAN, vc \in BOOLEAN : process(Str("request"), re, vc)
    /\ UNCHANGED other_than_model
VerifyOutput ==
    /\ \E own \in BOOLEAN : verify_output(own)
    /\ UNCHANGED other_than_model

NextFusion ==
    \/ Construct
    \/ Orchestrate
    \/ Process
    \/ VerifyOutput

SpecFusion == InitFusion /\ [][NextFusion]_vars

----------------------------------------------------------------------------
(* Properties *)

\* C1: under HYBRID or VOTING the fused decision is the deterministic record's
\* decision, whatever the probabilistic record's decision and confidence.
C1_SymbolicDecisionWins ==
    (fusion.called /\ fusion.mode \in {HYBRID, VOTING}) =>
        /\ fusion.exc = ""
        /\ Item(fusion.val, "decision") = Item(fusion.symbolic, "decision")

\* C1 witness: a fusion in which the probabilistic record disagrees with high
\* confidence and the deterministic decision is kept.
C1_Witness ==
    /\ fusion.called /\ fusion.mode = VOTING /\ fusion.exc = ""
    /\ Get(fusion.probabilistic, "confidence", None) = Float("0.99")
    /\ Item(fusion.probabilistic, "decision") # Item(fusion.symbolic, "decision")
    /\ Item(fusion.val, "decision") = Str("REJECTED")

Contributions(out) == <<out.symbolic_contribution, out.probabilistic_contribution>>

\* C2: SYMBOLIC fusion returns the deterministic record and PROBABILISTIC fusion
\* the probabilistic one, and process reports the provenance weights (1.0, 0.0)
\* in SYMBOLIC mode and (0.0, 1.0) in PROBABILISTIC mode.
C2_ModePurityWithWeights ==
    /\ (fusion.called /\ fusion.mode = SYMBOLIC) => fusion.val = fusion.symbolic
    /\ (fusion.called /\ fusion.mode = PROBABILISTIC) => fusion.val = fusion.probabilistic
    /\ (hybrid_out.called /\ hybrid_out.mode = SYMBOLIC) =>
            Contributions(hybrid_out.val) = <<Float("1.0"), Float("0.0")>>
    /\ (hybrid_out.called /\ hybrid_out.mode = PROBABILISTIC) =>
            Contributions(hybrid_out.val) = <<Float("0.0"), Float("1.0")>>

\* C3: the audit trail holds exactly one entry per generate_attestation call that
\* returned, the i-th entry carrying the i-th returned hash.
C3_TrailIsCallHistory ==
    /\ Len(AuditTrail) = Len(gen_calls)
    /\ \A i \in 1..Len(gen_calls) : AuditTrail[i].hash = gen_calls[i].hash

\* C3 witness: two attestations with different hashes, a verification and a
\* get_audit_trail call have happened.
C3_Witness ==
    /\ Len(gen_calls) = MaxLog
    /\ gen_calls[1].hash # gen_calls[2].hash
    /\ verify_call.called
    /\ ret.op = "get_audit_trail"

\* C4: verifying an attestation with the payload and metadata it was generated
\* from returns true exactly when the clock read by verify_attestation equals
\* the clock read by generate_attestation.
C4_VerifyIffSameClock ==
    (verify_call.called /\ verify_call.gen > 0) =>
        (verify_call.result <=> verify_call.clock = gen_calls[verify_call.gen].clock)

\* C4 witness: such a verification, made at another clock reading, returned false.
C4_Witness ==
    /\ verify_call.called /\ verify_call.gen > 0
    /\ verify_call.clock # gen_calls[verify_call.gen].clock
    /\ ~verify_call.result

\* C5: no mutation a caller performs on the value get_audit_trail returned
\* changes the engine's log.
C5_CallerCannotChangeLog ==
    [][(caller_append \/ caller_delete \/ caller_replace) =>
            heap'[self_attestation_log] = heap[self_attestation_log]]_vars

\* C6: fusion under a mode that is no member of ReasoningMode fails with
\* InvalidModeError and yields no fused decision.
C6_UnknownModeFailsFast ==
    (fusion.called /\ fusion.mode \notin ReasoningMode) =>
        /\ fusion.exc = "InvalidModeError"
        /\ fusion.val = None

\* C7: two attestations of logically equal payloads and metadata at the same
\* timestamp have the same canonical serialization and the same hash, in the
\* engine and in the model's _generate_attestation.
C7_KeyOrderIrrelevant ==
    \A i, j \in 1..Len(gen_calls) :
        (/\ PyEq(gen_calls[i].output, gen_calls[j].output)
         /\ PyEq(gen_calls[i].metadata, gen_calls[j].metadata)
         /\ gen_calls[i].clock = gen_calls[j].clock) =>
            /\ gen_calls[i].hash = gen_calls[j].hash
            /\ AuditTrail[i].hash = AuditTrail[j].hash
            /\ model_generate_attestation(gen_calls[i].output)
                 = model_generate_attestation(gen_calls[j].output)
            /\ model_generate_attestation(gen_calls[i].metadata)
                 = model_generate_attestation(gen_calls[j].metadata)

\* C7 witness: two attestations whose payloads and whose metadata are equal but
\* were built in different insertion orders.
C7_Witness ==
    \E i, j \in 1..Len(gen_calls) :
        /\ gen_calls[i].output # gen_calls[j].output
        /\ gen_calls[i].metadata # gen_calls[j].metadata
        /\ PyEq(gen_calls[i].output, gen_calls[j].output)
        /\ PyEq(gen_calls[i].metadata, gen_calls[j].metadata)
        /\ gen_calls[i].clock = gen_calls[j].clock

EntryComplete(e) == e.hash # "None" /\ e.timestamp # "None" /\ e.strategy # "None"

\* C8: with threads interleaving, the log holds one entry per call that got past
\* its append (so one per completed call once no call is in progress), and
\* every entry a thread reads from the audit trail is complete.
C8_NoLostOrPartialEntry ==
    /\ Len(heap[self_attestation_log])
         = completed + Cardinality({t \in Threads : pc[t] = "return"})
    /\ (InCall = {}) => Len(heap[self_attestation_log]) = completed
    /\ \A t \in Threads : \A i \in 1..Len(observed[t]) : EntryComplete(observed[t][i])

\* C8 witness: a thread has read an entry from the trail, and two calls that ran
\* at the same time have both appended.
C8_Witness ==
    /\ \A t \in Threads : pc[t] = "return"
    /\ \E t \in Threads : Len(observed[t]) > 0
    /\ Len(heap[self_attestation_log]) = MaxCalls

\* C9: with attestation enabled, the output of process verifies against the
\* hash it carries.
C9_OutputVerifiesAgainstOwnHash ==
    (verified.called /\ verified.own /\ verified.attested) =>
        /\ verified.exc = ""
        /\ verified.val = Bool("True")

\* The inputs of generate_attestation that json.dumps rejects.
Unserializable ==
    {x \in Payloads \X (Metadatas \cup {MetaVP}) \X Clock :
        ~json_dumps(attestation_dict(x[1], x[2], x[3])).ok}

\* C10: a generate_attestation call whose payload or metadata cannot be
\* serialized raises to the caller and leaves the log as it was.
C10_FailedGenerateLeavesLog ==
    [][\A x \in Unserializable :
            generate_attestation(x[1], x[2], x[3])
                => (ret'.exc = "ValueError" /\ heap' = heap)]_vars

\* C10 witness: a failed call after an entry had been logged.
C10_Witness ==
    /\ ret = Raised("generate_attestation", "ValueError")
    /\ Len(AuditTrail) > 0

====
